---- MODULE Spec2Model ----
(***************************************************************************)
(* A model of firebaseit's retriever cache (src/src/retrieverCache.ts):    *)
(* the registry of Retrievers, one Retriever's fetch future, its push      *)
(* listeners and its snapshot, the shared id -> document cache, and the    *)
(* remote document service the Retrievers read from.                       *)
(***************************************************************************)
EXTENDS Integers, Sequences, FiniteSets, TLC

\* ------------------------------------------------------------------ bounds

\* Remote writes (set / delete of a document) and onSnapshot registrations
\* (subscribe calls) per behaviour of the main specification Spec.
MaxWrites == 1
MaxSubscribes == 1
\* The same for SpecFan, the specification with several subscribers.
MaxFanWrites == 1
MaxFanSubscribes == 2
\* The same for SpecShared, the specification with two Retrievers.
MaxSharedWrites == 1
MaxSharedSubscribes == 2
MaxSharedReads == 1
\* Array objects allocated per behaviour of SpecHeap.
MaxArrays == 4
\* SpecDiff: the length of the cached and of the proposed arrays.
MaxLen == 2
\* SpecOps: the operations called on the collection, the document and
\* the hooks.
MaxOps == 2
\* SpecAuth: the auth state changes at the service besides the sign-ins,
\* and the calls of signIn.
MaxAuthChanges == 1
MaxSignIns == 1
\* SpecFiles: the upload tasks and the state_changed events of a task.
MaxUploads == 1
MaxProgress == 2
\* Remote reads (getDoc / getDocs calls) per behaviour; the code issues at
\* most one per Retriever, the cap only keeps a faulty get() finite.
MaxReads == 2

\* Document ids of the collection "todos" and the values of their field n.
Ids == {1, 2}
Vals == {1, 2}

\* ------------------------------------------------------- JavaScript values

Undefined == [t |-> "undefined"]
Null == [t |-> "null"]
NoCall == [t |-> "nocall"]

\* JavaScript truthiness of the values a snapshot or a future can hold:
\* undefined and null are falsy, every object and every array (also the
\* empty one) is truthy.
Truthy(v) == v.t \notin {"undefined", "null"}

\* {...doc.data(), id: doc.id}
DocData(id, n) == [t |-> "doc", id |-> id, n |-> n]

Arr(items) == [t |-> "array", items |-> items]

Max(a, b) == IF a >= b THEN a ELSE b
Min(a, b) == IF a <= b THEN a ELSE b

\* Array.prototype.findIndex(doc => doc.id === id): the 0-based index of the
\* first match, -1 when there is none.
FindIndex(docs, id) ==
  LET hits == {i \in 1..Len(docs) : docs[i].id = id}
  IN IF hits = {} THEN -1
     ELSE (CHOOSE i \in hits : \A j \in hits : i <= j) - 1

\* Array.prototype.splice(start, deleteCount, ...items) on a copy: a
\* negative start counts from the end, and deleteCount is clamped.
Splice(docs, start, deleteCount, items) ==
  LET len == Len(docs)
      s == IF start < 0 THEN Max(len + start, 0) ELSE Min(start, len)
      d == Min(Max(deleteCount, 0), len - s)
  IN SubSeq(docs, 1, s) \o items \o SubSeq(docs, s + d + 1, len)

\* ---------------------------------------------------------- reference keys

\* A path is the sequence of its segments: <<"todos", 1>> is todos/1.
DocRef(id) == [kind |-> "document", path |-> <<"todos", id>>, id |-> id]
CollRef == [kind |-> "collection", path |-> <<"todos">>]
\* A Query object: obj is the object's identity, the rest its structure.
QueryRef(obj, cs) ==
  [kind |-> "query", path |-> <<"todos">>, constraints |-> cs, obj |-> obj]
Where(v) == [kind |-> "where", field |-> "n", op |-> "==", value |-> v]

\* firebase/firestore queryEqual: same base and same ordered constraints,
\* whatever the identity of the two Query objects.
queryEqual(a, b) == a.path = b.path /\ a.constraints = b.constraints

\* The keys the Retrievers of the main specification are created for.
MainRefs == {DocRef(1), CollRef}
\* The keys of the specification with two Retrievers writing dataCache: the
\* collection and a query that selects some of its documents.
SharedRefs == {CollRef, QueryRef(1, <<Where(1)>>)}
\* The keys of the registry specification.
CacheRefs ==
  MainRefs \cup {QueryRef(1, <<Where(1)>>), QueryRef(2, <<Where(1)>>),
                 QueryRef(3, <<Where(2)>>), QueryRef(4, <<>>)}

\* --------------------------------------------------- the remote service

\* The remote collection "todos" is a partial function id -> n: its domain
\* is the set of documents that exist.
Stores == UNION {[S -> Vals] : S \in SUBSET Ids}

Matches(ref, n) ==
  ref.kind = "collection" \/ \A i \in 1..Len(ref.constraints) :
                                 n = ref.constraints[i].value

\* The documents a collection or query key selects from the store.
Result(ref, store) ==
  [i \in {j \in DOMAIN store : Matches(ref, store[j])} |-> store[i]]

\* The ids of a set in ascending order.
RECURSIVE IdSeq(_)
IdSeq(S) ==
  IF S = {} THEN <<>>
  ELSE LET m == CHOOSE i \in S : \A j \in S : i <= j
       IN <<m>> \o IdSeq(S \ {m})

ChangesOf(type, ids, docs) ==
  [k \in 1..Len(IdSeq(ids)) |->
     [type |-> type, id |-> IdSeq(ids)[k], n |-> docs[IdSeq(ids)[k]]]]

\* QuerySnapshot.docChanges() of a listener that last saw `old` and now
\* sees `new`: removals, then additions, then modifications.
DocChanges(old, new) ==
  ChangesOf("removed", DOMAIN old \ DOMAIN new, old)
    \o ChangesOf("added", DOMAIN new \ DOMAIN old, new)
    \o ChangesOf("modified",
                 {i \in DOMAIN old \cap DOMAIN new : old[i] # new[i]}, new)

EmptyView == <<>>

\* What getDocs resolves with: every selected document as an addition.
QuerySnap(old, new) == [t |-> "querysnap", changes |-> DocChanges(old, new)]

\* What getDoc resolves with, and what a document listener is handed.
DocSnap(id, store) ==
  IF id \in DOMAIN store
    THEN [t |-> "docsnap", id |-> id, exists |-> TRUE, n |-> store[id]]
    ELSE [t |-> "docsnap", id |-> id, exists |-> FALSE]

ServiceError == [t |-> "error"]

\* The remote state a key shows: a DocSnap or the selected documents.
ViewOf(ref, store) ==
  IF ref.kind = "document" THEN DocSnap(ref.id, store) ELSE Result(ref, store)

\* The raw snapshot a read of `ref` resolves with.
ReadOf(ref, store) ==
  IF ref.kind = "document" THEN DocSnap(ref.id, store)
  ELSE QuerySnap(EmptyView, Result(ref, store))

\* ------------------------------------------------------------ the program

VARIABLES
  store,      \* the remote collection
  writes,     \* remote writes made so far
  cache,      \* cache: path -> Retriever (its index in insts)
  queryCache, \* queryCache: the Map's entries, in insertion order
  insts,      \* the Retriever instances: type, ref and the closure's
              \* snapshot and snapshotPromise
  dataCache,  \* dataCache: id -> last document value
  listeners,  \* the onSnapshot registrations, each with its closure's
              \* isInitialSnapshot and the remote state it last was handed
  reads,      \* the remote reads issued by get(), with their responses
  hooks,      \* the state of the mounted-flag and of useState of the
              \* useOperations hooks and of the transaction hook
  requests,   \* the remote writes and transactions in flight
  auth,       \* createAuth: the user future, the sign-in flag, the auth
              \* state events not handled yet, a useAuth subscriber and a
              \* reader of suspend()
  files,      \* createFiles: listCache, the upload task and the handlers
              \* that wait for a listing
  heap,       \* the array objects of SpecHeap's Retriever: arrays[a] is the
              \* content of the array at address a, snapshot the address
              \* the closure's `snapshot` holds (0: undefined)
  ev          \* the operation that ran last and what it returned or called

vars ==
  <<store, writes, cache, queryCache, insts, dataCache, listeners, reads,
    hooks, requests, auth, files, heap, ev>>

\* ---------------------------------------------------------------- futures

\* createPendingPromise: the promise object tagged status "pending".
createPendingPromise(id) ==
  [t |-> "promise", id |-> id, status |-> "pending",
   value |-> Undefined, reason |-> Undefined]

\* createFulfilledPromise: Object.assign(promise, {status, value}).
createFulfilledPromise(promise, value) ==
  [promise EXCEPT !.status = "fulfilled", !.value = value]

\* createRejectedPromise: Object.assign(promise, {status, reason}).
createRejectedPromise(promise, reason) ==
  [promise EXCEPT !.status = "rejected", !.reason = reason]

\* Object.assign(undefined, ...) throws a TypeError.
AssignThrows(promise) == promise.t = "undefined"

\* getDocumentData(id): dataCache[id], undefined for an id it lacks.
getDocumentData(id) ==
  IF id \in DOMAIN dataCache THEN dataCache[id] ELSE Undefined

\* --------------------------------------------------------- reconciliation

\* The forEach body with a modification pushed like an addition.
ApplyChangeModifiedPushed(acc, change) ==
  LET data == DocData(change.id, change.n)
      at == FindIndex(acc.docs, change.id)
  IN CASE change.type \in {"added", "modified"} ->
            [docs |-> Append(acc.docs, data),
             dataCache |-> (change.id :> data) @@ acc.dataCache]
       [] change.type = "removed" ->
            [docs |-> Splice(acc.docs, at, 1, <<>>),
             dataCache |->
               [i \in DOMAIN acc.dataCache \ {change.id} |-> acc.dataCache[i]]]

\* The forEach body with a removal that leaves dataCache alone.
ApplyChangeKeepsCached(acc, change) ==
  LET data == DocData(change.id, change.n)
      at == FindIndex(acc.docs, change.id)
  IN CASE change.type = "added" ->
            [docs |-> Append(acc.docs, data),
             dataCache |-> (change.id :> data) @@ acc.dataCache]
       [] change.type = "modified" ->
            [docs |-> Splice(acc.docs, at, 1, <<data>>),
             dataCache |-> (change.id :> data) @@ acc.dataCache]
       [] change.type = "removed" ->
            [docs |-> Splice(acc.docs, at, 1, <<>>),
             dataCache |-> acc.dataCache]

\* One change of docChanges().forEach applied to docs and dataCache.
ApplyChange(acc, change) ==
  LET data == DocData(change.id, change.n)
      at == FindIndex(acc.docs, change.id)
  IN CASE change.type = "added" ->
            [docs |-> Append(acc.docs, data),
             dataCache |-> (change.id :> data) @@ acc.dataCache]
       [] change.type = "modified" ->
            [docs |-> Splice(acc.docs, at, 1, <<data>>),
             dataCache |-> (change.id :> data) @@ acc.dataCache]
       [] change.type = "removed" ->
            [docs |-> Splice(acc.docs, at, 1, <<>>),
             dataCache |->
               [i \in DOMAIN acc.dataCache \ {change.id} |-> acc.dataCache[i]]]

RECURSIVE ApplyChanges(_, _)
ApplyChanges(acc, changes) ==
  IF changes = <<>> THEN acc
  ELSE ApplyChanges(ApplyChange(acc, Head(changes)), Tail(changes))

\* updateSnapshot: the value it returns and the dataCache it leaves.
updateSnapshot(type, snapshot, dc, updatedSnapshot) ==
  IF type \in {"collection", "query"}
    THEN LET docs == IF Truthy(snapshot) THEN snapshot.items ELSE <<>>
             acc == ApplyChanges([docs |-> docs, dataCache |-> dc],
                                 updatedSnapshot.changes)
         IN [value |-> Arr(acc.docs), dataCache |-> acc.dataCache]
    ELSE [value |-> DocData(updatedSnapshot.id, updatedSnapshot.n),
          dataCache |-> dc]

\* The batches a listener can be handed: the changes from one remote
\* state to another, the empty batch included.
Batches == {DocChanges(old, new) : old, new \in Stores}

\* updateSnapshot returning the array it reconciled into, never a copy.
updateSnapshotNoCopy(arrays, snapshot, dc, changes) ==
  LET docs == IF snapshot # 0 THEN snapshot ELSE Len(arrays) + 1
      held == IF snapshot # 0 THEN arrays ELSE Append(arrays, <<>>)
      acc == ApplyChanges([docs |-> held[docs], dataCache |-> dc], changes)
  IN [arrays |-> [held EXCEPT ![docs] = acc.docs], ret |-> docs,
      dataCache |-> acc.dataCache]

\* updateSnapshot of a collection or query Retriever on array objects:
\* `docs = snapshot || []` is the snapshot's array or a new empty one, the
\* changes are pushed and spliced into that array, and the result is
\* docs.slice(), a new array, if there was a change and docs if not.
updateSnapshotInPlace(arrays, snapshot, dc, changes) ==
  LET docs == IF snapshot # 0 THEN snapshot ELSE Len(arrays) + 1
      held == IF snapshot # 0 THEN arrays ELSE Append(arrays, <<>>)
      acc == ApplyChanges([docs |-> held[docs], dataCache |-> dc], changes)
      mutated == [held EXCEPT ![docs] = acc.docs]
      hasChanged == changes # <<>>
  IN IF hasChanged
       THEN [arrays |-> Append(mutated, mutated[docs]),
             ret |-> Len(mutated) + 1, dataCache |-> acc.dataCache]
       ELSE [arrays |-> mutated, ret |-> docs, dataCache |-> acc.dataCache]

\* ----------------------------------------------------------- the registry

\* getRetriever looking a query up by its base path alone.
getRetrieverByPath(key) ==
  IF key.kind \in {"document", "collection"}
    THEN IF key.path \in DOMAIN cache THEN cache[key.path] ELSE 0
    ELSE LET hits == {i \in 1..Len(queryCache) :
                        queryCache[i].query.path = key.path}
         IN IF hits = {} THEN 0
            ELSE queryCache[CHOOSE i \in hits : \A j \in hits : i <= j].retriever

\* getRetriever: the registered Retriever of a key, 0 for undefined.
getRetriever(key) ==
  IF key.kind \in {"document", "collection"}
    THEN IF key.path \in DOMAIN cache THEN cache[key.path] ELSE 0
    ELSE LET hits == {i \in 1..Len(queryCache) :
                        queryEqual(queryCache[i].query, key)}
         IN IF hits = {} THEN 0
            ELSE queryCache[CHOOSE i \in hits : \A j \in hits : i <= j].retriever

\* What an operation leaves in ev: the Retriever r and listener l it ran
\* for (0: none), the snapshot before it, its input, the value it handed
\* to the subscriber's callback, what it returned, whether it threw, and
\* (a push) the listener's isInitialSnapshot before it.
Ev(op, r, l, pre, arg, cb, ret, threw, initial) ==
  [op |-> op, r |-> r, l |-> l, pre |-> pre, arg |-> arg, cb |-> cb,
   ret |-> ret, threw |-> threw, initial |-> initial]

\* The hooks before their component is mounted: isMountedRef.current is
\* false and useState holds its initial value.
NoHooks ==
  [collection |-> [isMounted |-> FALSE, operations |-> <<>>],
   document |-> [isMounted |-> FALSE,
                 state |-> [isPending |-> FALSE, error |-> Null]],
   transaction |-> [isMounted |-> FALSE,
                    state |-> [isPending |-> FALSE, error |-> Null]]]

\* createAuth and createFiles were not called.
NoAuth == [created |-> FALSE]
NoFiles == [created |-> FALSE]

Init ==
  /\ store \in Stores
  /\ writes = 0
  /\ cache = <<>>
  /\ queryCache = <<>>
  /\ insts = <<>>
  /\ dataCache = <<>>
  /\ listeners = <<>>
  /\ reads = <<>>
  /\ heap = [arrays |-> <<>>, snapshot |-> 0]
  /\ hooks = NoHooks
  /\ auth = NoAuth
  /\ files = NoFiles
  /\ requests = <<>>
  /\ ev = Ev("init", 0, 0, Undefined, Undefined, NoCall, 0, FALSE, FALSE)

\* create({type, ref}): the existing Retriever of an equal key, else a new
\* one, registered by setRetriever.
Create(ref) ==
  LET existing == getRetriever(ref)
      r == Len(insts) + 1
  IN IF existing # 0
       THEN /\ ev' = Ev("create", existing, 0, Undefined, ref, NoCall,
                        existing, FALSE, FALSE)
            /\ UNCHANGED <<auth, files, hooks, requests, heap, store, writes, cache, queryCache, insts,
                           dataCache, listeners, reads>>
       ELSE /\ insts' = Append(insts, [type |-> ref.kind, ref |-> ref,
                                       snapshot |-> Undefined,
                                       snapshotPromise |-> Undefined])
            /\ IF ref.kind \in {"document", "collection"}
                 THEN /\ cache' = (ref.path :> r) @@ cache
                      /\ UNCHANGED queryCache
                 ELSE /\ queryCache' =
                           Append(queryCache, [query |-> ref, retriever |-> r])
                      /\ UNCHANGED cache
            /\ ev' = Ev("create", r, 0, Undefined, ref, NoCall, r, FALSE, FALSE)
            /\ UNCHANGED <<auth, files, hooks, requests, heap, store, writes, dataCache, listeners, reads>>

NextCache == \E ref \in CacheRefs : Create(ref)

SpecCache == Init /\ [][NextCache]_vars

\* ---------------------------------------------------------- the Retriever

\* get() returning the existing future only once it has settled.
HasSettledPromise(promise) == Truthy(promise) /\ promise.status # "pending"

\* get(): `if (snapshotPromise) return snapshotPromise`.
HasPromise(promise) == Truthy(promise)

\* The then handler reconciling the payload whatever the snapshot is.
FetchValueReconciles(inst, dc, docsSnapshot) ==
  updateSnapshot(inst.type, inst.snapshot, dc, docsSnapshot)

\* `snapshot || updateSnapshot(docsSnapshot)`: the value the future is
\* fulfilled with when the fetch found something, and the dataCache left.
FetchValue(inst, dc, docsSnapshot) ==
  IF Truthy(inst.snapshot)
    THEN [value |-> inst.snapshot, dataCache |-> dc]
    ELSE updateSnapshot(inst.type, inst.snapshot, dc, docsSnapshot)

\* The then handler treating a document that does not exist as a failure.
ThenHandlerRejectsMissing(inst, dc, docsSnapshot) ==
  IF docsSnapshot.t = "docsnap" /\ ~docsSnapshot.exists
    THEN [inst |-> [inst EXCEPT !.snapshotPromise =
                      createRejectedPromise(inst.snapshotPromise, Null)],
          dataCache |-> dc]
    ELSE LET v == FetchValue(inst, dc, docsSnapshot)
         IN [inst |-> [inst EXCEPT !.snapshotPromise =
                         createFulfilledPromise(inst.snapshotPromise, v.value)],
             dataCache |-> v.dataCache]

\* The then handler of get(): the Retriever and the dataCache it leaves.
ThenHandler(inst, dc, docsSnapshot) ==
  IF docsSnapshot.t = "docsnap" /\ ~docsSnapshot.exists
    THEN [inst |-> [inst EXCEPT !.snapshotPromise =
                      createFulfilledPromise(inst.snapshotPromise, Null)],
          dataCache |-> dc]
    ELSE LET v == FetchValue(inst, dc, docsSnapshot)
         IN [inst |-> [inst EXCEPT !.snapshotPromise =
                         createFulfilledPromise(inst.snapshotPromise, v.value)],
             dataCache |-> v.dataCache]

\* The catch handler fulfilling the future with the error.
CatchHandlerFulfils(inst, dc, error) ==
  [inst |-> [inst EXCEPT !.snapshotPromise =
               createFulfilledPromise(inst.snapshotPromise, error)],
   dataCache |-> dc]

\* The catch handler of get().
CatchHandler(inst, dc, error) ==
  [inst |-> [inst EXCEPT !.snapshotPromise =
               createRejectedPromise(inst.snapshotPromise, error)],
   dataCache |-> dc]

\* get(): the existing future, else a new pending one and a remote read.
Get(r) ==
  LET inst == insts[r]
      id == Len(reads) + 1
  IN IF HasPromise(inst.snapshotPromise)
       THEN /\ ev' = Ev("get", r, 0, inst.snapshot, inst.snapshotPromise,
                        NoCall, inst.snapshotPromise.id, FALSE, FALSE)
            /\ UNCHANGED <<auth, files, hooks, requests, heap, store, writes, cache, queryCache, insts,
                           dataCache, listeners, reads>>
       ELSE /\ Len(reads) < MaxReads
            /\ insts' = [insts EXCEPT ![r].snapshotPromise =
                           createPendingPromise(id)]
            /\ reads' = Append(reads, [r |-> r, phase |-> "sent",
                                       resp |-> Undefined])
            /\ ev' = Ev("get", r, 0, inst.snapshot, inst.snapshotPromise,
                        NoCall, id, FALSE, FALSE)
            /\ UNCHANGED <<auth, files, hooks, requests, heap, store, writes, cache, queryCache, dataCache,
                           listeners>>

\* The service answers a read: with the key's current remote state, or
\* with an error.
Answer(k) ==
  /\ reads[k].phase = "sent"
  /\ \E resp \in {ReadOf(insts[reads[k].r].ref, store), ServiceError} :
       reads' = [reads EXCEPT ![k].phase = "answered", ![k].resp = resp]
  /\ ev' = Ev("answer", reads[k].r, 0, insts[reads[k].r].snapshot, Undefined,
              NoCall, 0, FALSE, FALSE)
  /\ UNCHANGED <<auth, files, hooks, requests, heap, store, writes, cache, queryCache, insts, dataCache,
                 listeners>>

\* The answer of a read arrives: the then or the catch handler of get().
Settle(k) ==
  LET r == reads[k].r
      resp == reads[k].resp
      out == IF resp = ServiceError
               THEN CatchHandler(insts[r], dataCache, resp)
               ELSE ThenHandler(insts[r], dataCache, resp)
  IN /\ reads[k].phase = "answered"
     /\ reads' = [reads EXCEPT ![k].phase = "settled"]
     /\ insts' = [insts EXCEPT ![r] = out.inst]
     /\ dataCache' = out.dataCache
     /\ ev' = Ev("settle", r, 0, insts[r].snapshot, resp, NoCall, 0, FALSE, FALSE)
     /\ UNCHANGED <<auth, files, hooks, requests, heap, store, writes, cache, queryCache, listeners>>

\* The onSnapshot handler of subscribe(): the Retriever and the dataCache
\* it leaves, the value it calls the subscriber's callback with (NoCall:
\* the callback is not called), and whether it threw.
PushHandler(inst, isInitialSnapshot, dc, snapshotUpdate) ==
  IF Truthy(inst.snapshot) /\ isInitialSnapshot
    THEN [inst |-> inst, dataCache |-> dc, cb |-> NoCall, threw |-> FALSE]
    ELSE IF snapshotUpdate.t = "docsnap" /\ ~snapshotUpdate.exists
      THEN LET set == [inst EXCEPT !.snapshot = Null]
           IN IF AssignThrows(inst.snapshotPromise)
                THEN [inst |-> set, dataCache |-> dc, cb |-> NoCall,
                      threw |-> TRUE]
                ELSE [inst |-> [set EXCEPT !.snapshotPromise =
                                  createFulfilledPromise(inst.snapshotPromise,
                                                         Null)],
                      dataCache |-> dc, cb |-> Null, threw |-> FALSE]
      ELSE LET u == updateSnapshot(inst.type, inst.snapshot, dc,
                                   snapshotUpdate)
               set == [inst EXCEPT !.snapshot = u.value]
           IN IF AssignThrows(inst.snapshotPromise)
                THEN [inst |-> set, dataCache |-> u.dataCache, cb |-> NoCall,
                      threw |-> TRUE]
                ELSE [inst |-> [set EXCEPT !.snapshotPromise =
                                  createFulfilledPromise(inst.snapshotPromise,
                                                         u.value)],
                      dataCache |-> u.dataCache, cb |-> u.value,
                      threw |-> FALSE]

\* The future of a Retriever is fulfilled.
Fulfilled(inst) ==
  inst.snapshotPromise.t = "promise" /\ inst.snapshotPromise.status = "fulfilled"

\* subscribe(callback): one more onSnapshot registration on the key, with
\* its own isInitialSnapshot. `late` remembers, until the first delivery,
\* that the future was fulfilled when subscribe was called.
Subscribe(r) ==
  /\ listeners' = Append(listeners,
                         [r |-> r, isInitialSnapshot |-> TRUE, active |-> TRUE,
                          sent |-> FALSE, view |-> Undefined,
                          late |-> Fulfilled(insts[r])])
  /\ ev' = Ev("subscribe", r, Len(listeners) + 1, insts[r].snapshot,
              Undefined, NoCall, 0, FALSE, FALSE)
  /\ UNCHANGED <<auth, files, hooks, requests, heap, store, writes, cache, queryCache, insts, dataCache,
                 reads>>

\* The function subscribe() returned: the registration is removed.
Unsubscribe(l) ==
  /\ listeners[l].active
  /\ listeners' = [listeners EXCEPT ![l] =
                   [r |-> listeners[l].r, isInitialSnapshot |-> FALSE,
                    active |-> FALSE, sent |-> FALSE, view |-> Undefined,
                    late |-> FALSE]]
  /\ ev' = Ev("unsubscribe", listeners[l].r, l, insts[listeners[l].r].snapshot,
              Undefined, NoCall, 0, FALSE, FALSE)
  /\ UNCHANGED <<auth, files, hooks, requests, heap, store, writes, cache, queryCache, insts, dataCache,
                 reads>>

\* The raw snapshot the service hands a listener: a document listener its
\* document, a collection or query listener the changes since the remote
\* state it was handed last (since nothing, the first time).
UpdateFor(lst, ref, now) ==
  IF ref.kind = "document" THEN now
  ELSE QuerySnap(IF lst.sent THEN lst.view ELSE EmptyView, now)

\* The service pushes to a listener: the first time whatever the remote
\* state is, afterwards when it differs from what the listener saw last.
Push(l) ==
  LET lst == listeners[l]
      r == lst.r
      now == ViewOf(insts[r].ref, store)
      update == UpdateFor(lst, insts[r].ref, now)
      out == PushHandler(insts[r], lst.isInitialSnapshot, dataCache, update)
  IN /\ lst.active
     /\ IF lst.sent THEN lst.view # now ELSE TRUE
     /\ listeners' = [listeners EXCEPT ![l].isInitialSnapshot = FALSE,
                                       ![l].sent = TRUE, ![l].view = now,
                                       ![l].late = FALSE]
     /\ insts' = [insts EXCEPT ![r] = out.inst]
     /\ dataCache' = out.dataCache
     /\ ev' = Ev("push", r, l, insts[r].snapshot, update, out.cb, 0,
                 out.threw, lst.isInitialSnapshot)
     /\ UNCHANGED <<auth, files, hooks, requests, heap, store, writes, cache, queryCache, reads>>

\* suspend() returning the future's value whatever its status.
suspendReturnsValue(promise) ==
  IF promise.status = "rejected"
    THEN [threw |-> TRUE, what |-> promise.reason]
    ELSE [threw |-> FALSE, what |-> promise.value]

\* suspend() of use(): what it throws or returns for the future get()
\* returned.
suspend(promise) ==
  IF promise.status = "pending"
    THEN [threw |-> TRUE, what |-> promise]
    ELSE IF promise.status = "rejected"
      THEN [threw |-> TRUE, what |-> promise.reason]
      ELSE [threw |-> FALSE, what |-> promise.value]

\* A consumer that rendered use(), which called get(), calls suspend().
Suspend(r) ==
  LET promise == insts[r].snapshotPromise
      out == suspend(promise)
  IN /\ HasPromise(promise)
     /\ ev' = Ev("suspend", r, 0, insts[r].snapshot, promise, NoCall,
                 out.what, out.threw, FALSE)
     /\ UNCHANGED <<auth, files, hooks, requests, heap, store, writes, cache, queryCache, insts, dataCache,
                    listeners, reads>>

\* Some client writes a document of the remote collection.
SetDoc(i, n) ==
  /\ IF i \in DOMAIN store THEN store[i] # n ELSE TRUE
  /\ store' = (i :> n) @@ store
  /\ writes' = writes + 1
  /\ ev' = Ev("setDoc", 0, 0, Undefined, Undefined, NoCall, 0, FALSE, FALSE)
  /\ UNCHANGED <<auth, files, hooks, requests, heap, cache, queryCache, insts, dataCache, listeners,
                 reads>>

\* Some client deletes a document of the remote collection.
DeleteDoc(i) ==
  /\ i \in DOMAIN store
  /\ store' = [j \in DOMAIN store \ {i} |-> store[j]]
  /\ writes' = writes + 1
  /\ ev' = Ev("deleteDoc", 0, 0, Undefined, Undefined, NoCall, 0, FALSE, FALSE)
  /\ UNCHANGED <<auth, files, hooks, requests, heap, cache, queryCache, insts, dataCache, listeners,
                 reads>>

\* A behaviour follows the one Retriever the application creates first:
\* Retrievers share nothing but dataCache, which no Retriever reads. The
\* registry with several keys is SpecCache.
NextWith(maxWrites, maxSubscribes) ==
  \/ \E ref \in MainRefs :
       /\ insts = <<>> \/ getRetriever(ref) # 0
       /\ Create(ref)
  \/ \E r \in 1..Len(insts) : Get(r)
  \/ \E r \in 1..Len(insts) : Suspend(r)
  \/ \E k \in 1..Len(reads) : Answer(k)
  \/ \E k \in 1..Len(reads) : Settle(k)
  \/ \E r \in 1..Len(insts) :
       Len(listeners) < maxSubscribes /\ Subscribe(r)
  \/ \E l \in 1..Len(listeners) : Unsubscribe(l)
  \/ \E l \in 1..Len(listeners) : Push(l)
  \/ \E i \in Ids, n \in Vals : writes < maxWrites /\ SetDoc(i, n)
  \/ \E i \in Ids : writes < maxWrites /\ DeleteDoc(i)

Next == NextWith(MaxWrites, MaxSubscribes)

Spec == Init /\ [][Next]_vars

NextFan == NextWith(MaxFanWrites, MaxFanSubscribes)

SpecFan == Init /\ [][NextFan]_vars

\* Two Retrievers of one cache, the collection's and a query's, each with
\* its own fetch and its own listeners, writing the one dataCache.
NextShared ==
  \/ \E ref \in SharedRefs : getRetriever(ref) = 0 /\ Create(ref)
  \/ \E r \in 1..Len(insts) : Len(reads) < MaxSharedReads /\ Get(r)
  \/ \E k \in 1..Len(reads) : Answer(k)
  \/ \E k \in 1..Len(reads) : Settle(k)
  \/ \E r \in 1..Len(insts) :
       Len(listeners) < MaxSharedSubscribes /\ Subscribe(r)
  \/ \E l \in 1..Len(listeners) : Push(l)
  \/ \E i \in Ids, n \in Vals : writes < MaxSharedWrites /\ SetDoc(i, n)
  \/ \E i \in Ids : writes < MaxSharedWrites /\ DeleteDoc(i)

SpecShared == Init /\ [][NextShared]_vars

\* One collection Retriever, registered, nothing fetched or pushed yet.
InitHeap ==
  /\ store = <<>>
  /\ writes = 0
  /\ cache = (CollRef.path :> 1)
  /\ queryCache = <<>>
  /\ insts = <<[type |-> "collection", ref |-> CollRef,
                snapshot |-> Undefined, snapshotPromise |-> Undefined]>>
  /\ dataCache = <<>>
  /\ listeners = <<>>
  /\ reads = <<>>
  /\ heap = [arrays |-> <<>>, snapshot |-> 0]
  /\ hooks = NoHooks
  /\ auth = NoAuth
  /\ files = NoFiles
  /\ requests = <<>>
  /\ ev = Ev("init", 0, 0, Undefined, Undefined, NoCall, 0, FALSE, FALSE)

\* `snapshot = updateSnapshot(snapshotUpdate)` of the onSnapshot handler,
\* on array objects and, in insts, on their values.
Reconcile(changes) ==
  LET out == updateSnapshotInPlace(heap.arrays, heap.snapshot, dataCache,
                                   changes)
      u == updateSnapshot("collection", insts[1].snapshot, dataCache,
                          [t |-> "querysnap", changes |-> changes])
  IN /\ Len(heap.arrays) + 2 <= MaxArrays
     /\ heap' = [arrays |-> out.arrays, snapshot |-> out.ret]
     /\ insts' = [insts EXCEPT ![1].snapshot = u.value]
     /\ dataCache' = out.dataCache
     /\ ev' = Ev("updateSnapshot", 1, 0, heap.snapshot, changes, NoCall,
                 out.ret, FALSE, FALSE)
     /\ UNCHANGED <<auth, files, hooks, requests, store, writes, cache, queryCache,
                    listeners, reads>>

NextHeap == \E changes \in Batches : Reconcile(changes)

SpecHeap == InitHeap /\ [][NextHeap]_vars

\* ------------------------------------------------------ the update diff

\* JavaScript values of document fields. An object carries its identity
\* (obj) besides its content; primitives have none.
Num(k) == [t |-> "number", v |-> k]
NaN == [t |-> "NaN"]
Str(s) == [t |-> "string", v |-> s]
Object(obj, fields) == [t |-> "object", obj |-> obj, fields |-> fields]
Absent == [t |-> "absent"]

\* v[key]: the property of an object, undefined for a property it lacks
\* and for every property of a primitive.
Member(v, key) ==
  IF v.t = "object" /\ key \in DOMAIN v.fields THEN v.fields[key] ELSE Undefined

\* path.reduce((aggr, key) => aggr[key], doc): reading a property of
\* undefined throws a TypeError.
RECURSIVE Reduce(_, _)
Reduce(path, aggr) ==
  IF path = <<>> THEN [threw |-> FALSE, value |-> aggr]
  ELSE IF aggr.t = "undefined" THEN [threw |-> TRUE, value |-> Undefined]
  ELSE Reduce(Tail(path), Member(aggr, Head(path)))

\* currentValue + value for a number `value`: undefined + n and NaN + n
\* are NaN.
Plus(a, b) == IF a.t = "number" /\ b.t = "number" THEN Num(a.v + b.v) ELSE NaN

\* The content of a value without the identities of its objects.
Plain(v) ==
  IF v.t = "object" THEN [t |-> "object", fields |-> v.fields] ELSE v

\* === : the same primitive or the same object.
strictEqual(a, b) == a = b

\* lodash.isequal: equal content, whatever the identity.
isEqual(a, b) == Plain(a) = Plain(b)

\* diffDeep(oldArr, newArr) on the arrays' elements.
diffDeep(oldArr, newArr) ==
  [added |-> SelectSeq(newArr, LAMBDA n :
                ~\E i \in 1..Len(oldArr) : isEqual(oldArr[i], n)),
   removed |-> SelectSeq(oldArr, LAMBDA o :
                ~\E i \in 1..Len(newArr) : isEqual(o, newArr[i]))]

\* The transforms of firebase/firestore.
increment(n) == [t |-> "increment", n |-> n]
arrayUnion(items) == [t |-> "arrayUnion", items |-> items]
arrayRemove(items) == [t |-> "arrayRemove", items |-> items]

\* A key "a.b" is the sequence of its segments; doc[key] reads the
\* property whose name is the whole key.
Flat(doc, key) == IF Len(key) = 1 THEN Member(doc, key[1]) ELSE Undefined

\* The body of the for loop of createDocUpdate for one entry: whether it
\* threw, whether it assigned dataUpdates[key], and what.
EntryUpdate(doc, key, value) ==
  IF value.t \in {"number", "NaN"}
    THEN LET currentValue == Reduce(key, doc)
         IN [threw |-> currentValue.threw, emits |-> TRUE,
             update |-> increment(Plus(currentValue.value, value))]
  ELSE IF value.t = "array"
    THEN LET old == Flat(doc, key)
             diff == diffDeep(IF old.t = "array" THEN old.items ELSE <<>>,
                              value.items)
         IN IF old.t # "array"
              THEN [threw |-> TRUE, emits |-> FALSE, update |-> Undefined]
              ELSE IF diff.added # <<>>
                THEN [threw |-> FALSE, emits |-> TRUE,
                      update |-> arrayUnion(diff.added)]
              ELSE IF diff.removed # <<>>
                THEN [threw |-> FALSE, emits |-> TRUE,
                      update |-> arrayRemove(diff.removed)]
              ELSE [threw |-> FALSE, emits |-> FALSE, update |-> Undefined]
  ELSE [threw |-> FALSE, emits |-> TRUE, update |-> value]

\* createDocUpdate(doc, data): whether it threw, else dataUpdates.
createDocUpdate(doc, data) ==
  LET entry == [k \in DOMAIN data |-> EntryUpdate(doc, k, data[k])]
  IN IF \E k \in DOMAIN data : entry[k].threw
       THEN [threw |-> TRUE, updates |-> <<>>]
       ELSE [threw |-> FALSE,
             updates |-> [k \in {j \in DOMAIN data : entry[j].emits} |->
                            entry[k].update]]

\* The elements of cached arrays and of the arrays a caller proposes: two
\* strings and an object, the caller's object being another object with
\* the same content as the cached one.
CachedElems == {Str("a"), Str("b"), Object(1, [k |-> Str("x")])}
ProposedElems == {Str("a"), Str("b"), Object(2, [k |-> Str("x")])}

ArraysOf(elems) ==
  {[t |-> "array", items |-> q] :
     q \in UNION {[1..n -> elems] : n \in 0..MaxLen}}

\* An object with the properties, of those given, that are not Absent.
Pick(all) ==
  Object(0, [k \in {j \in DOMAIN all : all[j] # Absent} |-> all[k]])

\* The cached documents: id and title, and any of a number `views`, an
\* array `tags` and a nested object `stats` with a number `views`.
Docs ==
  {Pick([id |-> Str("1"), title |-> Str("t"), views |-> v, tags |-> a,
         stats |-> o]) :
     v \in {Absent, Num(5)}, a \in {Absent} \cup ArraysOf(CachedElems),
     o \in {Absent, Object(0, [views |-> Num(1)])}}

\* The keys of an update, "stats.views" being a dot path.
Keys == {<<"views">>, <<"tags">>, <<"title">>, <<"stats", "views">>}

\* The data a caller passes to update: any of the keys, with a number, an
\* array or a string.
Proposals ==
  {[k \in {j \in Keys : all[j] # Absent} |-> all[k]] :
     all \in {[k \in Keys |->
                 CASE k = <<"views">> -> v
                   [] k = <<"tags">> -> a
                   [] k = <<"title">> -> s
                   [] OTHER -> n] :
               v \in {Absent, Num(8)},
               a \in {Absent} \cup ArraysOf(ProposedElems),
               s \in {Absent, Str("u")}, n \in {Absent, Num(2)}}}

\* The document with the value at a path replaced, the objects on the
\* way created where they are missing.
RECURSIVE SetPath(_, _, _)
SetPath(v, path, value) ==
  IF path = <<>> THEN value
  ELSE LET fields == IF v.t = "object" THEN v.fields ELSE <<>>
           obj == IF v.t = "object" THEN v.obj ELSE 0
       IN Object(obj, (Head(path) :>
                         SetPath(Member(v, Head(path)), Tail(path), value))
                      @@ fields)

\* The elements of items that no element of docs equals, each once.
RECURSIVE Union(_, _)
Union(docs, items) ==
  IF items = <<>> THEN docs
  ELSE Union(IF \E i \in 1..Len(docs) : isEqual(docs[i], Head(items))
               THEN docs ELSE Append(docs, Head(items)),
             Tail(items))

\* The value of a field after the service applied a transform to it.
Transformed(current, update) ==
  CASE update.t = "increment" ->
         IF current.t = "number" THEN Plus(current, update.n) ELSE update.n
    [] update.t = "arrayUnion" ->
         Arr(Union(IF current.t = "array" THEN current.items ELSE <<>>,
                   update.items))
    [] update.t = "arrayRemove" ->
         Arr(SelectSeq(IF current.t = "array" THEN current.items ELSE <<>>,
                       LAMBDA e : ~\E i \in 1..Len(update.items) :
                                     isEqual(e, update.items[i])))
    [] OTHER -> update

\* updateDoc(ref, updates) at the service: the document with every key
\* of updates transformed.
RECURSIVE ApplyTransform(_, _)
ApplyTransform(doc, updates) ==
  IF DOMAIN updates = {} THEN doc
  ELSE LET k == CHOOSE j \in DOMAIN updates : TRUE
           current == Reduce(k, doc).value
       IN ApplyTransform(SetPath(doc, k, Transformed(current, updates[k])),
                         [j \in DOMAIN updates \ {k} |-> updates[j]])

DocumentUpdateError == [t |-> "error", name |-> "DocumentUpdateError"]
TypeError == [t |-> "error", name |-> "TypeError"]

\* update(data) of a document: it throws when dataCache has no value for
\* the id and when createDocUpdate throws, else it sends updateDoc the
\* transforms createDocUpdate computed.
DocumentUpdate(id, data) ==
  LET documentData == getDocumentData(id)
      out == createDocUpdate(documentData, data)
      threw == ~Truthy(documentData) \/ out.threw
  IN /\ requests' =
          IF threw THEN requests
          ELSE Append(requests, [op |-> "update", id |-> id, by |-> "document",
                                 payload |-> out.updates, settled |-> FALSE])
     /\ ev' = Ev("document.update", id, Len(requests), documentData, data,
                 NoCall,
                 IF ~Truthy(documentData) THEN DocumentUpdateError
                 ELSE IF out.threw THEN TypeError ELSE out.updates,
                 threw, FALSE)
     /\ UNCHANGED <<auth, files, hooks, heap, store, writes, cache, queryCache, insts,
                    dataCache, listeners, reads>>

\* A document is cached, nothing is in flight.
InitDiff ==
  /\ store = <<>>
  /\ writes = 0
  /\ cache = <<>>
  /\ queryCache = <<>>
  /\ insts = <<>>
  /\ dataCache \in {(1 :> doc) : doc \in Docs}
  /\ listeners = <<>>
  /\ reads = <<>>
  /\ heap = [arrays |-> <<>>, snapshot |-> 0]
  /\ hooks = NoHooks
  /\ auth = NoAuth
  /\ files = NoFiles
  /\ requests = <<>>
  /\ ev = Ev("init", 0, 0, Undefined, Undefined, NoCall, 0, FALSE, FALSE)

\* One call of update per behaviour, on any cached document with any data.
NextDiff ==
  \E data \in Proposals : ev.op = "init" /\ DocumentUpdate(1, data)

SpecDiff == InitDiff /\ [][NextDiff]_vars

\* ----------------------------------------------- the operation hooks

\* The documents of the collection that operations are called for: 1 is
\* cached with a title and a number, 2 is not cached.
OpIds == {1, 2}
OpDoc == Object(0, [id |-> Str("1"), title |-> Str("t"), views |-> Num(5)])

\* The data passed to the operations: a new title, and a number at a dot
\* path whose parent the cached document lacks (createDocUpdate throws).
OpData == {(<<"title">> :> Str("u")), (<<"stats", "views">> :> Num(2))}

\* The reason updateDoc, setDoc, deleteDoc or runTransaction rejects with.
FirestoreError == [t |-> "error", name |-> "FirestoreError"]
Error == [t |-> "error", name |-> "Error"]

\* The error a hook builds from the rejection of an operation's write.
OperationError(op) ==
  [t |-> "error",
   name |-> CASE op = "add" -> "DocumentAddError"
              [] op = "set" -> "DocumentSetError"
              [] op = "update" -> "DocumentUpdateError"
              [] OTHER -> "DocumentDeleteError"]

Pending == [isPending |-> TRUE, error |-> Null]
Failed(error) == [isPending |-> FALSE, error |-> error]
Idle == [isPending |-> FALSE, error |-> Null]

\* setError with a state update that does not spread prev.
setErrorOnly(hook, id, error) ==
  IF ~hook.isMounted THEN hook
  ELSE [hook EXCEPT !.operations = (id :> Failed(error))]

\* setPending, setError and unsetOperation of the collection hook: nothing
\* while isMountedRef.current is false, else a functional state update
\* that touches the entry of id only.
setPending(hook, id) ==
  IF ~hook.isMounted THEN hook
  ELSE [hook EXCEPT !.operations = (id :> Pending) @@ @]

setError(hook, id, error) ==
  IF ~hook.isMounted THEN hook
  ELSE [hook EXCEPT !.operations = (id :> Failed(error)) @@ @]

unsetOperation(hook, id) ==
  IF ~hook.isMounted THEN hook
  ELSE [hook EXCEPT !.operations = [j \in DOMAIN @ \ {id} |-> @[j]]]

\* The write an operation hands the service, not settled yet.
Request(op, id, by, payload) ==
  [op |-> op, id |-> id, by |-> by, payload |-> payload, settled |-> FALSE]

\* The id doc(ref) generates for add: one no document and no earlier add
\* has.
AutoId ==
  3 + Cardinality({k \in 1..Len(requests) : requests[k].op = "add"})

\* What an operation saw when it was called.
Before(id) ==
  [hooks |-> hooks, documentData |-> getDocumentData(id)]

\* The effect of useEffect and its cleanup, in the hooks that have one.
Mount(h) ==
  /\ ~hooks[h].isMounted
  /\ hooks' = [hooks EXCEPT ![h].isMounted = TRUE]
  /\ ev' = Ev("mount", 0, Len(requests), Before(0), h, NoCall, 0, FALSE,
              FALSE)
  /\ UNCHANGED <<auth, files, requests, heap, store, writes, cache, queryCache, insts,
                 dataCache, listeners, reads>>

Unmount(h) ==
  /\ hooks[h].isMounted
  /\ hooks' = [hooks EXCEPT ![h].isMounted = FALSE]
  /\ ev' = Ev("unmount", 0, Len(requests), Before(0), h, NoCall, 0, FALSE,
              FALSE)
  /\ UNCHANGED <<auth, files, requests, heap, store, writes, cache, queryCache, insts,
                 dataCache, listeners, reads>>

\* add(data), set(id, data) and remove(id) of the collection hook:
\* setPending, then the write.
HookWrite(op, id, data) ==
  /\ hooks' = [hooks EXCEPT !.collection = setPending(@, id)]
  /\ requests' = Append(requests, Request(op, id, "collection.hook", data))
  /\ ev' = Ev("hook." \o op, id, Len(requests), Before(id), data, NoCall, id,
              FALSE, FALSE)
  /\ UNCHANGED <<auth, files, heap, store, writes, cache, queryCache, insts, dataCache,
                 listeners, reads>>

HookAdd(data) == HookWrite("add", AutoId, data)
HookSet(id, data) == HookWrite("set", id, data)
HookRemove(id) == HookWrite("remove", id, Undefined)

\* update(id, data) of the collection hook: without a cached document
\* setError and return; else setPending, then updateDoc with the
\* transforms of createDocUpdate, which may throw.
HookUpdate(id, data) ==
  LET documentData == getDocumentData(id)
      out == createDocUpdate(documentData, data)
  IN IF ~Truthy(documentData)
       THEN /\ hooks' = [hooks EXCEPT !.collection =
                           setError(@, id, OperationError("update"))]
            /\ ev' = Ev("hook.update", id, Len(requests), Before(id), data,
                        NoCall, Undefined, FALSE, FALSE)
            /\ UNCHANGED <<auth, files, requests, heap, store, writes, cache, queryCache,
                           insts, dataCache, listeners, reads>>
       ELSE /\ hooks' = [hooks EXCEPT !.collection = setPending(@, id)]
            /\ requests' =
                 IF out.threw THEN requests
                 ELSE Append(requests, Request("update", id,
                                               "collection.hook", out.updates))
            /\ ev' = Ev("hook.update", id, Len(requests), Before(id), data,
                        NoCall, IF out.threw THEN TypeError ELSE Undefined,
                        out.threw, FALSE)
            /\ UNCHANGED <<auth, files, heap, store, writes, cache, queryCache, insts,
                           dataCache, listeners, reads>>

\* update(id, data) of the collection: it throws without a cached
\* document, else it hands updateDoc the data as passed.
CollectionUpdate(id, data) ==
  LET documentData == getDocumentData(id)
      threw == ~Truthy(documentData)
  IN /\ requests' =
          IF threw THEN requests
          ELSE Append(requests, Request("update", id, "collection", data))
     /\ ev' = Ev("collection.update", id, Len(requests), Before(id), data,
                 NoCall, IF threw THEN Error ELSE Undefined, threw, FALSE)
     /\ UNCHANGED <<auth, files, hooks, heap, store, writes, cache, queryCache, insts,
                    dataCache, listeners, reads>>

\* update(data) of the document hook: setState, mounted or not, then the
\* same as update of the document.
DocumentHookUpdate(id, data) ==
  LET documentData == getDocumentData(id)
      out == createDocUpdate(documentData, data)
      threw == ~Truthy(documentData) \/ out.threw
  IN /\ hooks' = [hooks EXCEPT !.document.state = Pending]
     /\ requests' =
          IF threw THEN requests
          ELSE Append(requests, Request("update", id, "document.hook",
                                        out.updates))
     /\ ev' = Ev("document.hook.update", id, Len(requests), Before(id), data,
                 NoCall,
                 IF ~Truthy(documentData) THEN OperationError("update")
                 ELSE IF out.threw THEN TypeError ELSE Undefined,
                 threw, FALSE)
     /\ UNCHANGED <<auth, files, heap, store, writes, cache, queryCache, insts, dataCache,
                    listeners, reads>>

\* run(callback) of the transaction hook: runTransaction, no setState.
TransactionRun ==
  /\ requests' = Append(requests, Request("transaction", 0,
                                          "transaction.hook", Undefined))
  /\ ev' = Ev("transaction.run", 0, Len(requests), Before(0), Undefined,
              NoCall, Undefined, FALSE, FALSE)
  /\ UNCHANGED <<auth, files, hooks, heap, store, writes, cache, queryCache, insts,
                 dataCache, listeners, reads>>

\* The handlers an operation attached to its write with then(): the first
\* when the write was fulfilled, the second when it was rejected.
Then(req, fulfilled, error) ==
  CASE req.by = "collection.hook" ->
         [hooks EXCEPT !.collection =
            IF fulfilled THEN unsetOperation(@, req.id)
            ELSE setError(@, req.id, OperationError(req.op))]
    [] req.by = "document.hook" ->
         [hooks EXCEPT !.document.state =
            IF fulfilled THEN Idle ELSE Failed(OperationError(req.op))]
    [] req.by = "transaction.hook" ->
         IF ~hooks.transaction.isMounted THEN hooks
         ELSE [hooks EXCEPT !.transaction.state =
                 IF fulfilled THEN Idle ELSE Failed(error)]
    [] OTHER -> hooks

\* The service settles the write k: it is fulfilled or rejected.
SettleWrite(k, fulfilled) ==
  /\ ~requests[k].settled
  /\ requests' = [requests EXCEPT ![k].settled = TRUE]
  /\ hooks' = Then(requests[k], fulfilled, FirestoreError)
  /\ ev' = Ev(IF fulfilled THEN "fulfilled" ELSE "rejected", requests[k].id,
              k, Before(requests[k].id), requests[k], NoCall, FirestoreError,
              FALSE, FALSE)
  /\ UNCHANGED <<auth, files, heap, store, writes, cache, queryCache, insts, dataCache,
                 listeners, reads>>

\* Document 1 is cached, no hook is mounted, nothing is in flight.
InitOps ==
  /\ store = <<>>
  /\ writes = 0
  /\ cache = <<>>
  /\ queryCache = <<>>
  /\ insts = <<>>
  /\ dataCache = (1 :> OpDoc)
  /\ listeners = <<>>
  /\ reads = <<>>
  /\ heap = [arrays |-> <<>>, snapshot |-> 0]
  /\ hooks = NoHooks
  /\ auth = NoAuth
  /\ files = NoFiles
  /\ requests = <<>>
  /\ ev = Ev("init", 0, 0, Undefined, Undefined, NoCall, 0, FALSE, FALSE)

\* At most MaxOps operations are called in a behaviour.
Called == Len(requests) < MaxOps

\* The collection hook alone: its effect, its operations and the
\* settlement of their writes.
NextHook ==
  \/ Mount("collection")
  \/ Unmount("collection")
  \/ \E data \in OpData : Called /\ HookAdd(data)
  \/ \E id \in OpIds, data \in OpData : Called /\ HookSet(id, data)
  \/ \E id \in OpIds : Called /\ HookRemove(id)
  \/ \E id \in OpIds, data \in OpData : Called /\ HookUpdate(id, data)
  \/ \E k \in 1..Len(requests), fulfilled \in BOOLEAN :
       SettleWrite(k, fulfilled)

SpecHook == InitOps /\ [][NextHook]_vars

\* The collection hook together with the document hook, the transaction
\* hook and the operations outside the hooks.
NextOps ==
  \/ NextHook
  \/ Mount("document")
  \/ Unmount("document")
  \/ \E id \in OpIds, data \in OpData : Called /\ CollectionUpdate(id, data)
  \/ \E id \in OpIds, data \in OpData : Called /\ DocumentUpdate(id, data)
  \/ \E id \in OpIds, data \in OpData : Called /\ DocumentHookUpdate(id, data)
  \/ Called /\ TransactionRun

SpecOps == InitOps /\ [][NextOps]_vars

\* -------------------------------------------------------------- the auth

\* What getUserDetails makes of the users of the auth service: an
\* anonymous user and a user signed in with a provider (with an email).
AnonymousUser == [t |-> "user", isAnonymous |-> TRUE]
AuthenticatedUser == [t |-> "user", isAnonymous |-> FALSE]
Users == {Null, AnonymousUser, AuthenticatedUser}

\* A future of the auth module: the status tag and value that
\* createPendingPromise and createFulfilledPromise assign to the promise
\* object, and the state of the promise itself, which only its resolve
\* function changes.
UserPromise(status, value, native) ==
  [t |-> "promise", status |-> status, value |-> value, native |-> native]

\* The state useAuth hands its component.
AuthState(isPending, error, user) ==
  [isPending |-> isPending, error |-> error, user |-> user, signUp |-> Null]

SignInError == [t |-> "error", name |-> "FirebaseError"]

\* setUser(firebaseUser): createFulfilledPromise tags userPromise with
\* the user; the promise itself stays as it is.
setUser(a, user) ==
  [a EXCEPT !.userPromise = UserPromise("fulfilled", user, @.native)]

\* notifyAuthStateSubscribers(state): setState of the mounted useAuth.
notifyAuthStateSubscribers(a, state) ==
  IF a.subscribed THEN [a EXCEPT !.state = state] ELSE a

\* createAuth(app, options): with a user in localStorage the user future
\* is fulfilled, else it is pending until the first auth state is known;
\* the second onAuthStateChanged listener is handed the first auth state
\* and every change (`at` remembers how far signIn was when the state
\* was announced).
createAuth(allowAnonymous, mobile, cachedUser, current) ==
  [created |-> TRUE, allowAnonymous |-> allowAnonymous, mobile |-> mobile,
   current |-> current,
   userPromise |-> IF cachedUser # Null
                     THEN UserPromise("fulfilled", cachedUser, "fulfilled")
                     ELSE UserPromise("pending", Undefined, "pending"),
   first |-> cachedUser = Null,
   anonymous |-> "idle",
   changes |-> <<[user |-> current, at |-> "idle"]>>,
   changed |-> 0,
   isSigningIn |-> FALSE,
   signIn |-> "idle",
   signIns |-> 0,
   subscribed |-> FALSE,
   state |-> Undefined,
   reader |-> "none"]

\* The listener inside the user future is handed the first auth state:
\* with allowAnonymous and no user it starts signInAnonymously and
\* returns, else it resolves the future with setUser(user).
FirstAuthState ==
  /\ auth.first
  /\ auth' =
       IF auth.allowAnonymous /\ auth.current = Null
         THEN [auth EXCEPT !.first = FALSE, !.anonymous = "inflight"]
         ELSE [setUser(auth, auth.current) EXCEPT
                 !.first = FALSE, !.userPromise.native = "fulfilled"]
  /\ ev' = Ev("firstAuthState", 0, 0, auth.userPromise, auth.current, NoCall,
              0, FALSE, TRUE)
  /\ UNCHANGED <<files, hooks, requests, heap, store, writes, cache,
                 queryCache, insts, dataCache, listeners, reads>>

\* signInAnonymously is fulfilled: the service has an anonymous user,
\* announces the change, and the then() handler calls setUser.
SignedInAnonymously ==
  /\ auth.anonymous = "inflight"
  /\ auth' = [setUser(auth, AnonymousUser) EXCEPT
                !.anonymous = "done", !.current = AnonymousUser,
                !.changes = Append(@, [user |-> AnonymousUser,
                                       at |-> auth.signIn])]
  /\ ev' = Ev("signedInAnonymously", 0, 0, auth.userPromise, AnonymousUser,
              NoCall, 0, FALSE, FALSE)
  /\ UNCHANGED <<files, hooks, requests, heap, store, writes, cache,
                 queryCache, insts, dataCache, listeners, reads>>

\* The auth state changes at the service (a sign-out, another user).
AuthChange(user) ==
  /\ auth.changed < MaxAuthChanges
  /\ user # auth.current
  /\ auth.anonymous # "inflight"
  /\ auth' = [auth EXCEPT
                !.current = user, !.changed = @ + 1,
                !.changes = Append(@, [user |-> user,
                                       at |-> auth.signIn])]
  /\ ev' = Ev("authChange", 0, 0, Undefined, user, NoCall, 0, FALSE, FALSE)
  /\ UNCHANGED <<files, hooks, requests, heap, store, writes, cache,
                 queryCache, insts, dataCache, listeners, reads>>

\* The second onAuthStateChanged listener handles an auth state, after
\* redirectResult (no redirect took place): nothing while isSigningIn,
\* else setUser and a notification of the subscribers.
AuthStateChanged ==
  LET change == Head(auth.changes)
      rest == [auth EXCEPT !.changes = Tail(@)]
      state == AuthState(FALSE, Null, change.user)
  IN /\ auth.changes # <<>>
     /\ ~auth.first
     /\ auth' = IF auth.isSigningIn THEN rest
                ELSE notifyAuthStateSubscribers(setUser(rest, change.user),
                                                state)
     /\ ev' = Ev("authStateChanged", 0, 0, auth.state, change,
                 IF auth.isSigningIn THEN NoCall ELSE state, 0, FALSE, FALSE)
     /\ UNCHANGED <<files, hooks, requests, heap, store, writes, cache,
                    queryCache, insts, dataCache, listeners, reads>>

\* A component with useAuth() is mounted: its state is made from the tag
\* of the user future, its effect adds setState to the subscriptions.
AuthMount ==
  /\ ~auth.subscribed
  /\ auth' = [auth EXCEPT
                !.subscribed = TRUE,
                !.state = IF auth.userPromise.status = "pending"
                            THEN AuthState(TRUE, Null, Null)
                            ELSE AuthState(FALSE, Null,
                                           auth.userPromise.value)]
  /\ ev' = Ev("useAuth", 0, 0, Undefined, Undefined, NoCall, 0, FALSE, FALSE)
  /\ UNCHANGED <<files, hooks, requests, heap, store, writes, cache,
                 queryCache, insts, dataCache, listeners, reads>>

\* A reader renders and calls suspend(): the first time, and again when
\* the future it threw has settled. A pending tag throws the future, a
\* fulfilled one returns its value.
AuthSuspend ==
  LET out == suspend(auth.userPromise)
  IN /\ \/ auth.reader = "none"
        \/ auth.reader = "suspended" /\ auth.userPromise.native # "pending"
     /\ auth' = [auth EXCEPT
                   !.reader = IF out.threw THEN "suspended" ELSE "returned"]
     /\ ev' = Ev("auth.suspend", 0, 0, auth.reader, auth.userPromise, NoCall,
                 out.what, out.threw, FALSE)
     /\ UNCHANGED <<files, hooks, requests, heap, store, writes, cache,
                    queryCache, insts, dataCache, listeners, reads>>

\* signIn(provider): the subscribers are told it is pending, isSigningIn
\* is set, and the popup or the redirect starts.
SignIn ==
  /\ auth.signIn # "inflight"
  /\ auth.signIns < MaxSignIns
  /\ auth' = [notifyAuthStateSubscribers(auth, AuthState(TRUE, Null, Null))
                EXCEPT !.isSigningIn = TRUE, !.signIn = "inflight",
                       !.signIns = @ + 1]
  /\ ev' = Ev("signIn", 0, 0, auth.state, Undefined, NoCall, 0, FALSE, FALSE)
  /\ UNCHANGED <<files, hooks, requests, heap, store, writes, cache,
                 queryCache, insts, dataCache, listeners, reads>>

\* The provider signed the user in: the service announces the change
\* before the promise of signInWithPopup is fulfilled.
ProviderSignedIn ==
  /\ auth.signIn = "inflight"
  /\ ~auth.mobile
  /\ auth.current # AuthenticatedUser
  /\ auth' = [auth EXCEPT
                !.current = AuthenticatedUser,
                !.changes = Append(@, [user |-> AuthenticatedUser,
                                       at |-> auth.signIn])]
  /\ ev' = Ev("providerSignedIn", 0, 0, Undefined, AuthenticatedUser, NoCall,
              0, FALSE, FALSE)
  /\ UNCHANGED <<files, hooks, requests, heap, store, writes, cache,
                 queryCache, insts, dataCache, listeners, reads>>

\* onSignInSuccess, attached to signInWithPopup only: the subscribers
\* are handed the user, then isSigningIn is reset.
onSignInSuccess ==
  LET state == AuthState(FALSE, Null, AuthenticatedUser)
  IN /\ auth.signIn = "inflight"
     /\ ~auth.mobile
     /\ auth.current = AuthenticatedUser
     /\ auth' = [notifyAuthStateSubscribers(
                   setUser(auth, AuthenticatedUser), state)
                   EXCEPT !.isSigningIn = FALSE, !.signIn = "succeeded"]
     /\ ev' = Ev("onSignInSuccess", 0, 0, auth.state, AuthenticatedUser,
                 state, 0, FALSE, FALSE)
     /\ UNCHANGED <<files, hooks, requests, heap, store, writes, cache,
                    queryCache, insts, dataCache, listeners, reads>>

\* onSignInError, the catch() of the popup and of the redirect: the
\* subscribers are handed the error.
onSignInError ==
  LET state == AuthState(FALSE, SignInError, Null)
  IN /\ auth.signIn = "inflight"
     /\ auth.mobile \/ auth.current # AuthenticatedUser
     /\ auth' = [notifyAuthStateSubscribers(auth, state)
                   EXCEPT !.signIn = "failed"]
     /\ ev' = Ev("onSignInError", 0, 0, auth.state, SignInError, state, 0,
                 FALSE, FALSE)
     /\ UNCHANGED <<files, hooks, requests, heap, store, writes, cache,
                    queryCache, insts, dataCache, listeners, reads>>

\* createAuth was called, with any options, on any device, with or
\* without a user in localStorage and at the service.
InitAuth ==
  /\ store = <<>>
  /\ writes = 0
  /\ cache = <<>>
  /\ queryCache = <<>>
  /\ insts = <<>>
  /\ dataCache = <<>>
  /\ listeners = <<>>
  /\ reads = <<>>
  /\ heap = [arrays |-> <<>>, snapshot |-> 0]
  /\ hooks = NoHooks
  /\ requests = <<>>
  /\ files = NoFiles
  /\ auth \in {createAuth(allowAnonymous, mobile, cachedUser, current) :
                 allowAnonymous \in BOOLEAN, mobile \in BOOLEAN,
                 cachedUser \in Users, current \in Users}
  /\ ev = Ev("init", 0, 0, Undefined, Undefined, NoCall, 0, FALSE, FALSE)

NextAuth ==
  \/ FirstAuthState
  \/ SignedInAnonymously
  \/ \E user \in Users : AuthChange(user)
  \/ AuthStateChanged
  \/ AuthMount
  \/ AuthSuspend
  \/ SignIn
  \/ ProviderSignedIn
  \/ onSignInSuccess
  \/ onSignInError

SpecAuth == InitAuth /\ [][NextAuth]_vars

\* ------------------------------------------------------------- the files

\* The directory the specification lists and uploads into, and the names
\* of files in it.
Dir == "docs"
Names == {"a", "b"}

Item(name) == [name |-> name, path |-> Dir \o "/" \o name]

\* The items of a set of names, in the order of the listing.
RECURSIVE Items(_)
Items(S) ==
  IF S = {} THEN <<>>
  ELSE LET n == CHOOSE m \in S : \A o \in S : m = "a" \/ o # "a"
       IN <<Item(n)>> \o Items(S \ {n})

\* A future of listCache: the status tag and value assigned to the promise
\* object, and the state of the promise itself.
ListPromise(status, value, native) ==
  [t |-> "promise", status |-> status, value |-> value, native |-> native]

\* The promise list(storageRef).then(...) after list() was fulfilled:
\* the handler tags it fulfilled with the items and returns it, and a
\* promise resolved with itself is rejected (a chaining cycle).
ListFulfilled(items) == ListPromise("fulfilled", items, "rejected")

\* createFiles(app), in a component that stays mounted with useUpload.
createFiles(stored) ==
  [created |-> TRUE, stored |-> stored, listCache |-> <<>>,
   tasks |-> <<>>, waiting |-> <<>>,
   state |-> [isPending |-> FALSE, error |-> Null, url |-> Null]]

\* useList(path) for a path listCache lacks: list() is started and its
\* pending future cached.
UseList ==
  /\ Dir \notin DOMAIN files.listCache
  /\ files' = [files EXCEPT
                 !.listCache = (Dir :> ListPromise("pending", Undefined,
                                                   "pending")) @@ @]
  /\ ev' = Ev("useList", 0, 0, Undefined, Dir, NoCall, 0, FALSE, FALSE)
  /\ UNCHANGED <<auth, hooks, requests, heap, store, writes, cache,
                 queryCache, insts, dataCache, listeners, reads>>

\* list() is fulfilled with the files stored in the directory; the
\* handlers that waited for the future with then(onfulfilled) never run.
ListAnswered ==
  /\ Dir \in DOMAIN files.listCache
  /\ files.listCache[Dir].native = "pending"
  /\ files' = [files EXCEPT
                 !.listCache[Dir] = ListFulfilled(Items(files.stored)),
                 !.waiting = <<>>]
  /\ ev' = Ev("listed", 0, 0, files.listCache[Dir], Items(files.stored),
              NoCall, 0, FALSE, FALSE)
  /\ UNCHANGED <<auth, hooks, requests, heap, store, writes, cache,
                 queryCache, insts, dataCache, listeners, reads>>

\* upload(path, file): setState and uploadBytesResumable.
Upload(name) ==
  /\ Len(files.tasks) < MaxUploads
  /\ files' = [files EXCEPT
                 !.tasks = Append(@, [name |-> name, events |-> 0,
                                      threw |-> FALSE, done |-> FALSE]),
                 !.state = [isPending |-> TRUE, error |-> Null,
                            url |-> Null]]
  /\ ev' = Ev("upload", 0, Len(files.tasks) + 1, Undefined, name, NoCall, 0,
              FALSE, FALSE)
  /\ UNCHANGED <<auth, hooks, requests, heap, store, writes, cache,
                 queryCache, insts, dataCache, listeners, reads>>

\* The state_changed handler of task k and the handler it attaches to
\* `listCache[dir] || Promise.resolve([])`: on a pending future the
\* handler waits, on a rejected one it never runs, on a fulfilled one it
\* pushes the entry and tags the future; without a cached future it
\* pushes into [] and createFulfilledPromise(undefined, list) throws.
StateChanged(k) ==
  LET task == files.tasks[k]
      cached == Dir \in DOMAIN files.listCache
      native == IF cached THEN files.listCache[Dir].native ELSE "fulfilled"
      counted == [files EXCEPT !.tasks[k].events = @ + 1]
  IN /\ ~task.done
     /\ task.events < MaxProgress
     /\ files' =
          IF ~cached THEN [counted EXCEPT !.tasks[k].threw = TRUE]
          ELSE IF native = "pending"
            THEN [counted EXCEPT !.waiting = Append(@, k)]
          ELSE IF native = "rejected" THEN counted
          ELSE [counted EXCEPT
                  !.listCache[Dir] =
                     ListPromise("fulfilled",
                                 Append(@.value, Item(task.name)), @.native)]
     /\ ev' = Ev("state_changed", 0, k, IF cached THEN files.listCache[Dir]
                                        ELSE Undefined,
                 task.name, NoCall, 0, ~cached, FALSE)
     /\ UNCHANGED <<auth, hooks, requests, heap, store, writes, cache,
                    queryCache, insts, dataCache, listeners, reads>>

\* The task completes after at least one state_changed event: the file
\* is stored, getDownloadURL is fulfilled and the hook has the url.
Uploaded(k) ==
  LET task == files.tasks[k]
  IN /\ ~task.done
     /\ task.events > 0
     /\ files' = [files EXCEPT
                    !.tasks[k].done = TRUE,
                    !.stored = @ \cup {task.name},
                    !.state = [isPending |-> FALSE, error |-> Null,
                               url |-> Item(task.name).path]]
     /\ ev' = Ev("uploaded", 0, k, Undefined, task.name, NoCall, 0, FALSE,
                 FALSE)
     /\ UNCHANGED <<auth, hooks, requests, heap, store, writes, cache,
                    queryCache, insts, dataCache, listeners, reads>>

\* createFiles was called; the directory holds any of the files.
InitFiles ==
  /\ store = <<>>
  /\ writes = 0
  /\ cache = <<>>
  /\ queryCache = <<>>
  /\ insts = <<>>
  /\ dataCache = <<>>
  /\ listeners = <<>>
  /\ reads = <<>>
  /\ heap = [arrays |-> <<>>, snapshot |-> 0]
  /\ hooks = NoHooks
  /\ requests = <<>>
  /\ auth = NoAuth
  /\ files \in {createFiles(stored) : stored \in SUBSET Names}
  /\ ev = Ev("init", 0, 0, Undefined, Undefined, NoCall, 0, FALSE, FALSE)

NextFiles ==
  \/ UseList
  \/ ListAnswered
  \/ \E name \in Names : Upload(name)
  \/ \E k \in 1..Len(files.tasks) : StateChanged(k)
  \/ \E k \in 1..Len(files.tasks) : Uploaded(k)

SpecFiles == InitFiles /\ [][NextFiles]_vars

\* ================================================================= claims

\* Equality of reference keys: the same path for document and collection
\* keys, the same base and the same ordered constraints for query keys.
SameKey(a, b) ==
  /\ a.kind = b.kind
  /\ a.path = b.path
  /\ a.kind = "query" => a.constraints = b.constraints

\* The Retrievers the registry holds for the keys equal to ref.
RegisteredFor(ref) ==
  {cache[p] : p \in {q \in DOMAIN cache : ref.kind # "query" /\ q = ref.path}}
    \cup {queryCache[i].retriever :
            i \in {j \in 1..Len(queryCache) :
                     SameKey(queryCache[j].query, ref)}}

\* C1: over any sequence of create calls the registry holds at most one
\* Retriever per key, a registered Retriever is never replaced or evicted,
\* and create returns the Retriever registered for the (equal) key, so two
\* calls with equal keys return the same instance.
C1_OneRetrieverPerKey ==
  [][\A ref \in CacheRefs :
       /\ Cardinality(RegisteredFor(ref)') <= 1
       /\ RegisteredFor(ref) # {} => RegisteredFor(ref)' = RegisteredFor(ref)
       /\ (ev'.op = "create" /\ SameKey(ev'.arg, ref))
            => RegisteredFor(ref)' = {ev'.ret}
       /\ \A r \in 1..Len(insts) : r <= Len(insts') /\ insts'[r] = insts[r]]_vars

\* C1 witness: create was called with a Query object that is structurally
\* equal to, but not the same object as, the registered one, and returned
\* the registered Retriever.
C1_Witness ==
  /\ ev.op = "create"
  /\ ev.arg.kind = "query"
  /\ \E i \in 1..Len(queryCache) :
       /\ queryCache[i].retriever = ev.ret
       /\ queryCache[i].query.obj # ev.arg.obj
       /\ queryCache[i].query.constraints = ev.arg.constraints

\* The remote reads of Retriever r that have not settled yet.
InFlight(r) == {k \in 1..Len(reads) : reads[k].r = r /\ reads[k].phase # "settled"}

\* C2: at most one fetch is in flight per Retriever, and a get() made while
\* a future exists returns that future, issues no remote read and leaves
\* the Retriever's snapshot and future as they were.
C2_GetReturnsExistingFuture ==
  /\ \A r \in 1..Len(insts) : Cardinality(InFlight(r)) <= 1
  /\ (ev.op = "get" /\ ev.arg.t = "promise")
       => /\ ev.ret = ev.arg.id
          /\ insts[ev.r].snapshotPromise = ev.arg
          /\ insts[ev.r].snapshot = ev.pre
          /\ \A k \in 1..Len(reads) : reads[k].r = ev.r => k <= ev.arg.id

\* C2 witness: get() was called while the future was pending, its fetch
\* still in flight, and returned that future.
C2_Witness ==
  /\ ev.op = "get"
  /\ ev.arg.t = "promise"
  /\ ev.arg.status = "pending"
  /\ ev.ret = ev.arg.id
  /\ InFlight(ev.r) = {ev.arg.id}

\* The last operation was a fetch that succeeded: its then handler ran.
FetchSucceeded == ev.op = "settle" /\ ev.arg.t \in {"docsnap", "querysnap"}

\* The last operation was a fetch that reported the document not found.
FetchNotFound == ev.op = "settle" /\ ev.arg.t = "docsnap" /\ ~ev.arg.exists

\* C3: when a push delivered a snapshot (ev.pre, whatever its value, null
\* and the empty array included) before the fetch resolved, the resolved
\* fetch leaves getSnapshot() at the pushed value and the future fulfilled
\* with the pushed value.
C3_PushedValueWins ==
  (FetchSucceeded /\ ev.pre # Undefined)
    => /\ insts[ev.r].snapshot = ev.pre
       /\ insts[ev.r].snapshotPromise.status = "fulfilled"
       /\ insts[ev.r].snapshotPromise.value = ev.pre

\* The ids of a snapshot's elements are pairwise different.
DistinctIds(docs) ==
  \A i, j \in 1..Len(docs) : docs[i].id = docs[j].id => i = j

\* C4: the snapshot of a collection or query Retriever never holds two
\* elements with the same id.
C4_NoDuplicateIds ==
  \A r \in 1..Len(insts) :
    insts[r].snapshot.t = "array" => DistinctIds(insts[r].snapshot.items)

\* One change as the claim states it: an addition goes to the end, a
\* modification replaces the element with the same id where it is, a
\* removal deletes it and keeps the order of the others.
Reconciled1(docs, c) ==
  CASE c.type = "added" -> docs \o <<[t |-> "doc", id |-> c.id, n |-> c.n]>>
    [] c.type = "modified" ->
         [i \in 1..Len(docs) |->
            IF docs[i].id = c.id THEN [t |-> "doc", id |-> c.id, n |-> c.n]
            ELSE docs[i]]
    [] c.type = "removed" -> SelectSeq(docs, LAMBDA d : d.id # c.id)

RECURSIVE Reconciled(_, _)
Reconciled(docs, changes) ==
  IF changes = <<>> THEN docs
  ELSE Reconciled(Reconciled1(docs, Head(changes)), Tail(changes))

\* A batch the claim covers: over a snapshot without duplicates, every
\* addition is of an id the snapshot lacks and every modification and
\* removal of an id it holds, change after change.
RECURSIVE WellFormed(_, _)
WellFormed(docs, changes) ==
  /\ DistinctIds(docs)
  /\ \/ changes = <<>>
     \/ /\ (Head(changes).type = "added")
             = (\A i \in 1..Len(docs) : docs[i].id # Head(changes).id)
        /\ WellFormed(Reconciled1(docs, Head(changes)), Tail(changes))

\* The elements of the snapshot an operation started from.
PreItems == IF ev.pre.t = "array" THEN ev.pre.items ELSE <<>>

\* The last operation reconciled a batch of changes into the snapshot: a
\* push that was not suppressed as a restated initial delivery.
PushReconciled ==
  /\ ev.op = "push"
  /\ ev.arg.t = "querysnap"
  /\ ~(ev.initial /\ ev.pre.t = "array")

C6_FutureTerminal ==
  [][\A r \in 1..Len(insts) :
       (/\ insts[r].snapshotPromise.t = "promise"
        /\ insts[r].snapshotPromise.status \in {"fulfilled", "rejected"})
         => insts'[r].snapshotPromise = insts[r].snapshotPromise]_vars

\* C7: the first push to a subscriber, arriving while no fetch of the
\* Retriever has completed (none was started, or it is still pending),
\* calls the subscriber's callback with the reconciled value, which
\* getSnapshot() returns afterwards.
C7_FirstPushDelivered ==
  (/\ ev.op = "push"
   /\ ev.initial
   /\ ev.pre = Undefined
   /\ \A k \in 1..Len(reads) : reads[k].r = ev.r => reads[k].phase # "settled")
    => /\ ev.cb # NoCall
       /\ ev.cb = insts[ev.r].snapshot
       /\ insts[ev.r].snapshot # Undefined

\* C8: a fetch that succeeds when no push has delivered a snapshot makes
\* the reconciled payload the snapshot, and fulfils the future with it.
C8_FetchBecomesSnapshot ==
  (FetchSucceeded /\ ev.pre = Undefined)
    => /\ insts[ev.r].snapshotPromise.status = "fulfilled"
       /\ insts[ev.r].snapshot # Undefined
       /\ insts[ev.r].snapshot = insts[ev.r].snapshotPromise.value

\* C9: a fetch that reports the document not found leaves the future
\* fulfilled with null, not rejected.
C9_NotFoundFulfilsNull ==
  FetchNotFound
    => /\ insts[ev.r].snapshotPromise.status = "fulfilled"
       /\ insts[ev.r].snapshotPromise.value = Null

\* C9 witness: the fetch of a document that does not exist resolved, no
\* push having delivered anything, and the future is fulfilled with null.
C9_Witness ==
  /\ FetchNotFound
  /\ ev.pre = Undefined
  /\ insts[ev.r].type = "document"
  /\ insts[ev.r].snapshotPromise.status = "fulfilled"
  /\ insts[ev.r].snapshotPromise.value = Null

\* C10: after a fetch reported the document not found, getSnapshot()
\* returns null.
C10_NotFoundSnapshotNull ==
  FetchNotFound => insts[ev.r].snapshot = Null

\* The last operation was a fetch that failed: its catch handler ran.
FetchFailed == ev.op = "settle" /\ ev.arg = ServiceError

\* C11: a fetch that fails when no push has delivered a snapshot leaves
\* the future rejected with the service error, getSnapshot() undefined and
\* the id -> document cache as it was, and calls no subscriber's callback.
C11_FetchFailure ==
  [][(FetchFailed' /\ ev'.pre = Undefined)
       => /\ insts'[ev'.r].snapshotPromise.status = "rejected"
          /\ insts'[ev'.r].snapshotPromise.reason = ServiceError
          /\ insts'[ev'.r].snapshot = Undefined
          /\ dataCache' = dataCache
          /\ ev'.cb = NoCall]_vars

\* C11 witness: the fetch of a Retriever with a subscriber that has been
\* pushed nothing failed, and the future is rejected with the error.
C11_Witness ==
  /\ FetchFailed
  /\ ev.pre = Undefined
  /\ \E l \in 1..Len(listeners) : listeners[l].r = ev.r /\ listeners[l].active
  /\ insts[ev.r].snapshotPromise.status = "rejected"
  /\ insts[ev.r].snapshotPromise.reason = ServiceError

\* C12: a get() made after the fetch failed and rejected the future starts
\* a new remote read and returns a new, pending future.
C12_GetRetriesAfterRejection ==
  (ev.op = "get" /\ ev.arg.t = "promise" /\ ev.arg.status = "rejected")
    => /\ ev.ret # ev.arg.id
       /\ insts[ev.r].snapshotPromise.status = "pending"
       /\ InFlight(ev.r) # {}

\* The value a listener's first delivery carries: the document or null,
\* or the selected documents in the order of the batch.
Delivered(update) ==
  IF update.t = "docsnap"
    THEN IF update.exists
           THEN [t |-> "doc", id |-> update.id, n |-> update.n]
           ELSE Null
    ELSE Arr(Reconciled(<<>>, update.changes))

\* C13: when get() has fulfilled with v on a Retriever without a
\* subscription, the initial delivery to a subscriber added afterwards,
\* carrying v again, does not call the subscriber's callback.
C13_RestatedInitialSuppressed ==
  [][(/\ ev'.op = "push"
      /\ ev'.initial
      /\ Len(listeners) = 1
      /\ listeners[ev'.l].late
      /\ Fulfilled(insts[ev'.r])
      /\ Delivered(ev'.arg) = insts[ev'.r].snapshotPromise.value)
       => ev'.cb = NoCall]_vars

\* The open onSnapshot registrations of Retriever r: its push channels.
Channels(r) ==
  {l \in 1..Len(listeners) : listeners[l].r = r /\ listeners[l].active}

\* C14: an unsubscribe leaves the Retriever, its future and its reads as
\* they were and the Retriever's push channel open, and no later push
\* calls the callback of the subscriber that unsubscribed.
C14_UnsubscribeKeepsChannel ==
  [][/\ ev'.op = "unsubscribe"
          => /\ insts' = insts
             /\ reads' = reads
             /\ \E l \in 1..Len(listeners') :
                  listeners'[l].r = ev'.r /\ listeners'[l].active
     /\ (ev'.op = "push" /\ ev'.cb # NoCall) => listeners[ev'.l].active]_vars

\* C15: a Retriever has at most one push channel open, however many
\* subscribers it has.
C15_OneChannelPerRetriever ==
  \A r \in 1..Len(insts) : Cardinality(Channels(r)) <= 1

\* C17: a document Retriever stores what it reconciles in the id ->
\* document cache: after its fetch fulfilled the future with a document,
\* and after a push delivered one, getDocumentData(id) returns it.
C17_DocumentPopulatesCache ==
  /\ (/\ FetchSucceeded
      /\ insts[ev.r].type = "document"
      /\ insts[ev.r].snapshotPromise.value.t = "doc")
       => getDocumentData(insts[ev.r].snapshotPromise.value.id)
            = insts[ev.r].snapshotPromise.value
  /\ (ev.op = "push" /\ ev.cb.t = "doc") => getDocumentData(ev.cb.id) = ev.cb

\* C20: suspend() throws the future itself while the future is pending,
\* throws the rejection reason when it is rejected and returns the value
\* when it is fulfilled; it returns nothing while the future is pending.
C20_Suspend ==
  ev.op = "suspend"
    => /\ ev.arg.status = "pending" => ev.threw /\ ev.ret = ev.arg
       /\ ev.arg.status = "rejected" => ev.threw /\ ev.ret = ev.arg.reason
       /\ ev.arg.status = "fulfilled" => ~ev.threw /\ ev.ret = ev.arg.value
       /\ ~ev.threw => ev.arg.status # "pending"

\* C20 witness: suspend() was called while the fetch was in flight and
\* threw the pending future.
C20_Witness ==
  /\ ev.op = "suspend"
  /\ ev.arg.status = "pending"
  /\ InFlight(ev.r) # {}
  /\ ev.threw
  /\ ev.ret = ev.arg

\* Retriever r has a pending future whose read k was answered with a
\* payload, and one subscriber l whose initial delivery is still to come
\* and carries the remote state the payload was read from.
Racing(r, k, l) ==
  /\ reads[k].r = r
  /\ reads[k].phase = "answered"
  /\ reads[k].resp = ReadOf(insts[r].ref, store)
  /\ insts[r].snapshotPromise.status = "pending"
  /\ {m \in 1..Len(listeners) : listeners[m].r = r} = {l}
  /\ listeners[l].active
  /\ ~listeners[l].sent

\* The Retriever and the dataCache left when the fetch resolution is
\* processed before the initial delivery, and the other way round.
FetchThenPush(r, k, l) ==
  LET f == ThenHandler(insts[r], dataCache, reads[k].resp)
  IN PushHandler(f.inst, listeners[l].isInitialSnapshot, f.dataCache,
                 UpdateFor(listeners[l], insts[r].ref,
                           ViewOf(insts[r].ref, store)))

PushThenFetch(r, k, l) ==
  LET p == PushHandler(insts[r], listeners[l].isInitialSnapshot, dataCache,
                       UpdateFor(listeners[l], insts[r].ref,
                                 ViewOf(insts[r].ref, store)))
  IN ThenHandler(p.inst, p.dataCache, reads[k].resp)

\* C19: with a pending get() and one subscriber, the fetch payload and
\* the initial delivery carrying the same remote state, getSnapshot(),
\* the future's status and value and the id -> document cache end the
\* same whichever of the two is processed first.
C19_FetchAndPushConverge ==
  \A r \in 1..Len(insts), k \in 1..Len(reads), l \in 1..Len(listeners) :
    Racing(r, k, l)
      => /\ FetchThenPush(r, k, l).inst.snapshot
              = PushThenFetch(r, k, l).inst.snapshot
         /\ FetchThenPush(r, k, l).inst.snapshotPromise
              = PushThenFetch(r, k, l).inst.snapshotPromise
         /\ FetchThenPush(r, k, l).dataCache = PushThenFetch(r, k, l).dataCache

\* C19 witness: the initial delivery of two documents came first, the
\* fetch of the same two documents resolved after it, and the snapshot,
\* the future's value and the id -> document cache hold the two.
C19_Witness ==
  /\ FetchSucceeded
  /\ ev.arg = ReadOf(insts[ev.r].ref, store)
  /\ Len(listeners) = 1
  /\ listeners[1].sent
  /\ listeners[1].view = ViewOf(insts[ev.r].ref, store)
  /\ ev.pre = Arr(<<DocData(1, 1), DocData(2, 2)>>)
  /\ insts[ev.r].snapshot = ev.pre
  /\ insts[ev.r].snapshotPromise.value = ev.pre
  /\ getDocumentData(1) = DocData(1, 1)
  /\ getDocumentData(2) = DocData(2, 2)

\* The last operation reconciled the batch ev.arg into dataCache: a push
\* that was not suppressed, or a fetch that found no snapshot.
BatchReconciled ==
  \/ PushReconciled
  \/ FetchSucceeded /\ ev.arg.t = "querysnap" /\ ~Truthy(ev.pre)

\* C16: after a collection or query Retriever reconciled a batch,
\* getDocumentData(id) returns {fields, id} of the batch for every id it
\* added or modified and undefined for every id it removed, whichever
\* Retriever of the cache reconciled it.
C16_CacheFollowsBatch ==
  BatchReconciled
    => \A i \in 1..Len(ev.arg.changes) :
         getDocumentData(ev.arg.changes[i].id)
           = IF ev.arg.changes[i].type = "removed" THEN Undefined
             ELSE [t |-> "doc", id |-> ev.arg.changes[i].id,
                   n |-> ev.arg.changes[i].n]

\* C16 witness: the collection's Retriever had cached document 1, the
\* query's Retriever reconciled the removal of document 1 from its
\* result, and getDocumentData(1) returns undefined.
C16_Witness ==
  /\ PushReconciled
  /\ insts[ev.r].type = "query"
  /\ \E i \in 1..Len(ev.arg.changes) :
       ev.arg.changes[i].type = "removed" /\ ev.arg.changes[i].id = 1
  /\ \E r \in 1..Len(insts) :
       /\ insts[r].type = "collection"
       /\ insts[r].snapshot.t = "array"
       /\ \E j \in 1..Len(insts[r].snapshot.items) :
            insts[r].snapshot.items[j].id = 1
  /\ getDocumentData(1) = Undefined

\* The array the snapshot holds has the elements of the snapshot's value.
HeapAgrees ==
  IF heap.snapshot = 0 THEN insts[1].snapshot = Undefined
  ELSE insts[1].snapshot = Arr(heap.arrays[heap.snapshot])

\* C18: reconciling a batch with at least one change makes the snapshot
\* an array object that did not exist before, so not the previous one;
\* reconciling an empty batch into a snapshot array leaves the snapshot
\* that same array object.
C18_FreshIdentityIffChanged ==
  [][ev'.op = "updateSnapshot"
       => /\ heap'.snapshot = ev'.ret
          /\ ev'.arg # <<>>
               => ev'.ret > Len(heap.arrays) /\ ev'.ret # heap.snapshot
          /\ (ev'.arg = <<>> /\ heap.snapshot # 0)
               => ev'.ret = heap.snapshot]_vars

\* C18 witness: an empty batch was reconciled into a snapshot array that
\* held a document, and the snapshot is still that array object.
C18_Witness ==
  /\ ev.op = "updateSnapshot"
  /\ ev.arg = <<>>
  /\ ev.pre # 0
  /\ heap.arrays[ev.pre] # <<>>
  /\ heap.snapshot = ev.pre
  /\ HeapAgrees

\* The last operation was an update of a document that has a cached
\* value, with the data ev.arg.
Updated == ev.op = "document.update" /\ ev.pre.t = "object"

\* The keys the update passed a number for, and those it passed an array
\* for while the cached value of the field is an array.
NumberKeys == {k \in DOMAIN ev.arg : ev.arg[k].t = "number"}
ArrayKeys ==
  {k \in DOMAIN ev.arg : ev.arg[k].t = "array" /\ Flat(ev.pre, k).t = "array"}

\* The cached value of the field at key k.
CachedAt(k) == Reduce(k, ev.pre).value

\* C22: for a number passed for a field whose cached value is a number,
\* the update emits an increment by the passed value minus the cached one.
C22_IncrementByDelta ==
  (Updated /\ ~ev.threw)
    => \A k \in NumberKeys :
         CachedAt(k).t = "number"
           => /\ k \in DOMAIN ev.ret
              /\ ev.ret[k] = increment(Num(ev.arg[k].v - CachedAt(k).v))

\* C23: for a number n passed for a field, the update emits an increment
\* by n, whatever the cached value is.
C23_IncrementByPassedNumber ==
  (Updated /\ ~ev.threw)
    => \A k \in NumberKeys :
         k \in DOMAIN ev.ret /\ ev.ret[k] = increment(ev.arg[k])

\* Two values have the same content: the same primitive, or objects with
\* the same properties.
SameContent(a, b) ==
  IF a.t = "object" /\ b.t = "object" THEN a.fields = b.fields ELSE a = b

\* The elements of `from` that have the content of no element of `than`.
Beyond(from, than) ==
  SelectSeq(from, LAMBDA e :
              \A i \in 1..Len(than) : ~SameContent(e, than[i]))

\* The elements the update adds to and removes from the cached array of
\* key k.
AddedAt(k) == Beyond(ev.arg[k].items, Flat(ev.pre, k).items)
RemovedAt(k) == Beyond(Flat(ev.pre, k).items, ev.arg[k].items)

C25_AddAndRemoveRejected ==
  Updated
    => \A k \in ArrayKeys :
         (AddedAt(k) # <<>> /\ RemovedAt(k) # <<>>) => ev.threw

\* C26: an update passing a number for a field the cached document lacks
\* throws, and sends no increment.
C26_NumberWithoutBaselineRejected ==
  Updated
    => \A k \in NumberKeys :
         CachedAt(k).t = "undefined" => ev.threw /\ requests = <<>>

\* C27: diffing the data of an update again, against the cached document
\* with the update's transforms applied, yields no transform.
C27_RediffEmpty ==
  (Updated /\ ~ev.threw)
    => createDocUpdate(ApplyTransform(ev.pre, ev.ret), ev.arg)
         = [threw |-> FALSE, updates |-> <<>>]

\* C30: whenever the future of a Retriever is fulfilled, getSnapshot() is
\* defined and is the value the future holds.
C30_FulfilledSnapshotAgrees ==
  \A r \in 1..Len(insts) :
    Fulfilled(insts[r])
      => /\ insts[r].snapshot # Undefined
         /\ insts[r].snapshot = insts[r].snapshotPromise.value

\* The update operations, and the cached value the last one found.
UpdateOps ==
  {"collection.update", "document.update", "hook.update",
   "document.hook.update"}
Baseline == IF ev.op = "document.update" THEN ev.pre ELSE ev.pre.documentData

\* The last operation reported an error: it threw (its promise is
\* rejected), or the collection hook holds the error under its id.
Reported ==
  \/ ev.threw
  \/ /\ ev.op = "hook.update"
     /\ ev.r \in DOMAIN hooks.collection.operations
     /\ hooks.collection.operations[ev.r] = Failed(OperationError("update"))

\* C21: an update operation called for an id with no cached document
\* reports an error and hands the service no write.
C21_UpdateWithoutBaselineReported ==
  (ev.op \in UpdateOps /\ Baseline = Undefined)
    => Reported /\ Len(requests) = ev.l

\* The last step was an operation of the collection hook, or the
\* settlement of one of its writes, while the hook was mounted.
HookStarts == {"hook.add", "hook.set", "hook.update", "hook.remove"}
Started == ev.op \in HookStarts /\ ev.pre.hooks.collection.isMounted
Settled(how) ==
  /\ ev.op = how
  /\ ev.arg.by = "collection.hook"
  /\ ev.pre.hooks.collection.isMounted

\* operations[id] of the id of the last step, and the entries of the
\* other ids compared with those before the step.
Entry(state) ==
  /\ ev.r \in DOMAIN hooks.collection.operations
  /\ hooks.collection.operations[ev.r] = state
OthersUnchanged ==
  LET now == hooks.collection.operations
      before == ev.pre.hooks.collection.operations
  IN /\ DOMAIN now \ {ev.r} = DOMAIN before \ {ev.r}
     /\ \A j \in DOMAIN now \ {ev.r} : now[j] = before[j]

\* C28 as stated: in a mounted collection hook every started operation
\* sets operations[id] to pending, a fulfilled write removes the entry, a
\* rejected one makes it {isPending: false, error} and leaves the entries
\* of the other ids as they were.
C28_OperationsTracked ==
  /\ Started => Entry(Pending)
  /\ Settled("fulfilled") => ev.r \notin DOMAIN hooks.collection.operations
  /\ Settled("rejected")
       => Entry(Failed(OperationError(ev.arg.op))) /\ OthersUnchanged

\* C28 amended: the same, except that update for an id with no cached
\* document sets operations[id] to {isPending: false, error} with a
\* DocumentUpdateError and hands the service no write; every step leaves
\* the entries of the other ids as they were.
C28_OperationsTrackedWithBaseline ==
  /\ Started
       => /\ IF ev.op = "hook.update" /\ Baseline = Undefined
               THEN /\ Entry(Failed(OperationError("update")))
                    /\ Len(requests) = ev.l
               ELSE Entry(Pending)
          /\ OthersUnchanged
  /\ Settled("fulfilled")
       => /\ ev.r \notin DOMAIN hooks.collection.operations
          /\ OthersUnchanged
  /\ Settled("rejected")
       => Entry(Failed(OperationError(ev.arg.op))) /\ OthersUnchanged

\* The write of set(1) was rejected while a later operation on document
\* 2 is pending.
C28_Witness ==
  /\ Settled("rejected")
  /\ ev.r = 1
  /\ ev.arg.op = "set"
  /\ hooks.collection.operations
       = (1 :> Failed(OperationError("set"))) @@ (2 :> Pending)

\* C29: the transaction hook reports pending without error once run was
\* called, idle without error when the transaction was fulfilled, and not
\* pending with the error when it was rejected.
C29_TransactionTracked ==
  /\ ev.op = "transaction.run" => hooks.transaction.state = Pending
  /\ (ev.op = "fulfilled" /\ ev.arg.by = "transaction.hook")
       => hooks.transaction.state = Idle
  /\ (ev.op = "rejected" /\ ev.arg.by = "transaction.hook")
       => hooks.transaction.state = Failed(ev.ret)

\* The documents of a snapshot value as a set, whatever their order.
DocsOf(v) == IF v.t = "array" THEN {v.items[i] : i \in 1..Len(v.items)} ELSE {v}

\* C31: when a Retriever holds a snapshot and no other registration of
\* it is open, the initial delivery to a new subscriber leaves
\* getSnapshot() with the documents that delivery carried.
C31_InitialDeliveryNotLost ==
  (/\ ev.op = "push"
   /\ ev.initial
   /\ Truthy(ev.pre)
   /\ Channels(ev.r) = {ev.l})
    => DocsOf(insts[ev.r].snapshot) = DocsOf(Delivered(ev.arg))

\* The last step reconciled a batch into the snapshot array ev.pre, and
\* the batch has a modified or removed event for an id the array lacks.
StrayChange ==
  /\ ev.op = "push"
  /\ ev.arg.t = "querysnap"
  /\ ev.pre.t = "array"
  /\ ~(ev.initial /\ ev.cb = NoCall /\ ~ev.threw)
  /\ \E c \in 1..Len(ev.arg.changes) :
       /\ ev.arg.changes[c].type \in {"modified", "removed"}
       /\ FindIndex(ev.pre.items, ev.arg.changes[c].id) = -1

\* C32: reconciling a modified or removed event for an id the snapshot
\* lacks keeps every element of the snapshot whose id no event of the
\* batch names.
C32_StrayChangeKeepsOthers ==
  StrayChange
    => \A e \in DocsOf(ev.pre) :
         (\A c \in 1..Len(ev.arg.changes) : ev.arg.changes[c].id # e.id)
           => e \in DocsOf(insts[ev.r].snapshot)

\* The ids a Retriever's snapshot lists: those of its array's elements,
\* or the id of its document.
Listed(inst) ==
  IF inst.snapshot.t = "array"
    THEN {inst.snapshot.items[i].id : i \in 1..Len(inst.snapshot.items)}
    ELSE IF inst.snapshot.t = "doc" THEN {inst.snapshot.id} ELSE {}

\* C33: every id that the snapshot of some Retriever lists has a value in
\* the id -> document cache.
C33_ListedIdsCached ==
  \A r \in 1..Len(insts) :
    \A id \in Listed(insts[r]) : getDocumentData(id) # Undefined

\* C34: reconciling a batch leaves the array object that was the
\* snapshot before (returned by getSnapshot(), handed to the callbacks)
\* with the elements it had.
C34_ReturnedArrayNotMutated ==
  [][(ev'.op = "updateSnapshot" /\ heap.snapshot # 0)
       => heap'.arrays[heap.snapshot] = heap.arrays[heap.snapshot]]_vars

\* Writes of the collection hook on the id of the last step that are
\* not settled.
InFlightOn(id) ==
  {k \in 1..Len(requests) :
     /\ requests[k].by = "collection.hook"
     /\ requests[k].id = id
     /\ ~requests[k].settled}

\* C35: in a mounted collection hook, when one of two overlapping
\* operations on an id is settled while operations[id] is pending, the
\* other being in flight, operations[id].isPending is still true.
C35_PendingWhileInFlight ==
  (/\ ev.op \in {"fulfilled", "rejected"}
   /\ ev.arg.by = "collection.hook"
   /\ ev.pre.hooks.collection.isMounted
   /\ ev.r \in DOMAIN ev.pre.hooks.collection.operations
   /\ ev.pre.hooks.collection.operations[ev.r] = Pending
   /\ InFlightOn(ev.r) # {})
    => /\ ev.r \in DOMAIN hooks.collection.operations
       /\ hooks.collection.operations[ev.r].isPending

\* C36: when an operation of the document hook has ended, by throwing
\* when it was called or by its write being settled, the hook is not
\* pending: with the error when the operation failed, without when its
\* write was fulfilled.
C36_DocumentHookSettles ==
  /\ (ev.op = "document.hook.update" /\ ev.threw)
       => /\ ~hooks.document.state.isPending
          /\ hooks.document.state.error # Null
  /\ (ev.op = "rejected" /\ ev.arg.by = "document.hook")
       => /\ ~hooks.document.state.isPending
          /\ hooks.document.state.error # Null
  /\ (ev.op = "fulfilled" /\ ev.arg.by = "document.hook")
       => hooks.document.state = Idle

\* C37: when the anonymous sign-in has completed, the future a reader
\* was thrown by suspend() is settled, so that the reader is resumed.
C37_AnonymousReaderResumed ==
  (auth.reader = "suspended" /\ auth.anonymous = "done")
    => auth.userPromise.native = "fulfilled"

\* C38: an auth state announced after a signIn attempt has ended, and
\* handled while no other attempt is in flight, is delivered to the
\* useAuth subscriber.
C38_DeliveredAfterSignIn ==
  (/\ ev.op = "authStateChanged"
   /\ ev.arg.at \in {"succeeded", "failed"}
   /\ auth.signIn # "inflight"
   /\ auth.subscribed)
    => /\ ev.cb # NoCall
       /\ auth.state = AuthState(FALSE, Null, ev.arg.user)

\* How often the cached listing has an entry with the name.
Entries(name) ==
  Cardinality({i \in 1..Len(files.listCache[Dir].value) :
                 files.listCache[Dir].value[i].name = name})

\* C39: when an upload has completed, none of its state_changed handlers
\* threw, and a cached listing of the directory has exactly one entry
\* for the file.
C39_UploadListedOnce ==
  ev.op = "uploaded"
    => /\ ~files.tasks[ev.l].threw
       /\ (/\ Dir \in DOMAIN files.listCache
           /\ files.listCache[Dir].status = "fulfilled")
            => Entries(ev.arg) = 1

====
